---- MODULE Spec2Model ----
(***************************************************************************)
(* HEIC to JPEG converter: the three front ends of the repository          *)
(* (convert_heic_to_jpeg.js, convert_heic_to_jpeg.bat and the Processing   *)
(* sketch convert_heic_to_jpeg.pde) as one state machine.  The front end   *)
(* is fixed by Init; each front end has its own actions, translated from   *)
(* its own code.  The external tool (magick), the file system, the user    *)
(* and the thread scheduler are the environment: their answers are the     *)
(* \E-bound inputs of the actions.                                         *)
(*                                                                         *)
(* File names and argument tokens are sequences of one-character strings,  *)
(* so that toLowerCase / endsWith / wildcard matching are computed.        *)
(***************************************************************************)
EXTENDS Integers, Sequences, FiniteSets, Bags, TLC

\* ------------------------------------------------------------------ bounds
\* Largest number of entries in the directory chosen by Init.
MaxEntries == 4
\* Largest number of conversion threads of the sketch alive at once.
MaxWorkers == 2
\* Largest number of folder selections the sketch's user makes.
MaxScans == 1

\* ------------------------------------------------- names, paths, file system
Cwd == <<".">>
Photos == <<"p", "i", "c", "s">>
NoDir == <<"n", "o", "n", "e">>
AFile == <<"f", "i", "l", "e">>
DeleteWord == <<"d", "e", "l", "e", "t", "e">>
DeleteUpper == <<"D", "E", "L", "E", "T", "E">>
\* A third argument, which the usage line does not provide for.
Extra == <<"x">>

DotHeic == <<".", "h", "e", "i", "c">>
DotHEIC == <<".", "H", "E", "I", "C">>
Heic == <<"h", "e", "i", "c">>

\* Directory entries the model draws directory contents from.
FileA == [name |-> <<"a", ".", "h", "e", "i", "c">>, isFile |-> TRUE]
FileB == [name |-> <<"b", ".", "h", "e", "i", "c">>, isFile |-> TRUE]
FileC == [name |-> <<"c", ".", "H", "E", "I", "C">>, isFile |-> TRUE]
FileD == [name |-> <<"d", ".", "H", "e", "i", "c">>, isFile |-> TRUE]
Notes == [name |-> <<"n", ".", "t", "x", "t">>, isFile |-> TRUE]
NoDot == [name |-> <<"e", "h", "e", "i", "c">>, isFile |-> TRUE]
SubDir == [name |-> <<"s", ".", "h", "e", "i", "c">>, isFile |-> FALSE]

Universe == {FileA, FileB, FileC, FileD, Notes, NoDot, SubDir}

\* The order in which a directory listing returns its entries.
ListingOrder == <<FileA, FileB, FileC, FileD, Notes, NoDot, SubDir>>

\* The directories that exist; every other path is missing or a plain file.
ValidDirs == {Cwd, Photos}

\* What the current working directory holds.
CwdEntries == {Notes}

\* String.toLowerCase on one character (the letters the model uses).
LowerChar(c) ==
  CASE c = "H" -> "h"
    [] c = "E" -> "e"
    [] c = "I" -> "i"
    [] c = "C" -> "c"
    [] c = "D" -> "d"
    [] c = "L" -> "l"
    [] c = "T" -> "t"
    [] OTHER -> c

toLowerCase(s) == [j \in 1..Len(s) |-> LowerChar(s[j])]

endsWith(s, suffix) ==
  /\ Len(s) >= Len(suffix)
  /\ SubSeq(s, Len(s) - Len(suffix) + 1, Len(s)) = suffix

\* String.includes: suffix occurs somewhere in s.
includes(s, sub) ==
  \E j \in 1..(Len(s) + 1) :
    /\ j + Len(sub) - 1 <= Len(s)
    /\ SubSeq(s, j, j + Len(sub) - 1) = sub

\* fs.existsSync / File.exists / "if exist"
existsSync(p) == p \in ValidDirs \/ p = AFile
\* lstatSync(p).isDirectory() / File.isDirectory / pushd succeeds
isDirectory(p) == p \in ValidDirs

\* path.resolve(arg): "." is the current directory, other names stand for
\* themselves.
resolve(a) == IF a = <<".">> THEN Cwd ELSE a

\* The entries of set S in listing order.
InListingOrder(S) == SelectSeq(ListingOrder, LAMBDA e : e \in S)

VARIABLES
  frontend,        \* "js", "bat" or "pde"
  fs,              \* file system: directory -> set of entries it holds
  caseSensitive,   \* bat: whether the file system matches names by case
  args,            \* command line arguments (js, bat)
  pc,              \* position of the main program / animation thread
  targetFolder,    \* targetFolder / TARGET_FOLDER
  deleteOriginals, \* deleteOriginals / DELETE_ORIGINALS
  heicFiles,       \* heicFiles; bat: the files of the wildcard being looped
  found,           \* heicFiles.length as reported / bat: count
  converted,       \* converted / convertedCount
  failed,          \* failed / failedCount
  i,               \* js, bat: position in heicFiles (1-based)
  tried,           \* js, bat: commands started for the latest target
  statuses,        \* js, bat: exit statuses of those commands (0 = success)
  pattern,         \* bat: which wildcard of (*.heic *.HEIC) is looped
  exitCode,        \* -1 while running, else the process exit status
  report,          \* the last fatal error / terminal message
  heicWarned,      \* the HEIC-support warning was printed
  summary,         \* the counts printed by the final summary
  inflight,        \* bag of conversion subprocesses running now
  outcomes,        \* bag of per-target results (the SUCCESS/ERROR/DELETED lines)
  last,            \* js, bat: the result printed most recently
  enumerated,      \* directories whose entries were listed
  versionFailed,   \* the version query ran and failed
  ui,              \* pde: the sketch's flags and widgets
  workers,         \* pde: bag of the conversion threads' local states
  scan,            \* pde: the folder-selection callback thread
  started          \* pde: what was in effect at the latest start of a run

vars == <<frontend, fs, caseSensitive, args, pc, targetFolder,
          deleteOriginals, heicFiles, found, converted, failed, i, tried,
          statuses, pattern, exitCode, report, heicWarned, summary, inflight,
          outcomes, last, enumerated, versionFailed, ui, workers, scan,
          started>>

envVars == <<frontend, caseSensitive, args>>
pdeVars == <<ui, workers, scan, started>>

\* ------------------------------------------------------------ shared helpers
Path(dir, e) == [dir |-> dir, name |-> e.name]

\* One conversion subprocess: the input file and the command line used.
Command(file, strategy) == [file |-> file, strategy |-> strategy]

\* One per-target result: the file, Converted or Failed, the delete setting
\* the code read for it, and what became of the original.
Outcome(file, result, flag) ==
  [file |-> file, result |-> result, delFlag |-> flag,
   del |-> IF result = "Converted" /\ flag THEN "Pending" ELSE "NotAttempted"]

\* The result is printed: it joins the bag and is the latest one.
Record(o) ==
  /\ outcomes' = outcomes (+) SetToBag({o})
  /\ last' = o

\* The pending deletion of result o is resolved to d.
Resolve(o, d) ==
  /\ outcomes' = (outcomes (-) SetToBag({o})) (+) SetToBag({[o EXCEPT !.del = d]})
  /\ last' = [o EXCEPT !.del = d]

\* The file is removed from its directory.
Unlink(f) ==
  [fs EXCEPT ![f.dir] = {e \in @ : e.name # f.name}]

\* Process terminates with status code and message.
Exit(code, msg) ==
  /\ exitCode' = code
  /\ report' = msg
  /\ pc' = "exited"

\* ================================================================= js
\* heicFiles = allFiles.filter(endsWith('.heic') && isFile)
jsFilter(dir) ==
  InListingOrder({e \in fs[dir] :
     endsWith(toLowerCase(e.name), DotHeic) /\ e.isFile})

JsParseArgs ==
  /\ frontend = "js" /\ pc = "args"
  /\ IF Len(args) = 0
       THEN targetFolder' = Cwd /\ deleteOriginals' = FALSE
     ELSE IF Len(args) = 1
       THEN IF toLowerCase(args[1]) = DeleteWord
              THEN targetFolder' = Cwd /\ deleteOriginals' = TRUE
              ELSE targetFolder' = resolve(args[1]) /\ deleteOriginals' = FALSE
     ELSE IF Len(args) = 2
       THEN /\ targetFolder' = resolve(args[1])
            /\ deleteOriginals' = (toLowerCase(args[2]) = DeleteWord)
     ELSE targetFolder' = Cwd /\ deleteOriginals' = FALSE
  /\ pc' = "probe"
  /\ UNCHANGED <<envVars, pdeVars, fs, heicFiles, found, converted, failed, i,
                 tried, statuses, pattern, exitCode, report, heicWarned,
                 summary, inflight, outcomes, last, enumerated, versionFailed>>

\* Mutation: the catch block of the version query forgets process.exit(1).
JsToolUnavailableContinues ==
  /\ pc' = "formats"
  /\ UNCHANGED <<exitCode, report>>

\* The catch block of the version query: the error lines, process.exit(1).
JsToolUnavailable == Exit(1, "ToolUnavailable")

\* execSync('magick -version'): throws when the tool cannot be launched or
\* exits non-zero.
JsCheckTool ==
  /\ frontend = "js" /\ pc = "probe"
  /\ \E ok \in BOOLEAN :
       IF ok
         THEN /\ pc' = "formats"
              /\ UNCHANGED <<exitCode, report, versionFailed>>
         ELSE /\ JsToolUnavailable
              /\ versionFailed' = TRUE
  /\ UNCHANGED <<envVars, pdeVars, fs, targetFolder, deleteOriginals,
                 heicFiles, found, converted, failed, i, tried, statuses,
                 pattern, heicWarned, summary, inflight, outcomes, last, enumerated>>

\* What 'magick -list format' may print: the names of supported formats.
FormatLists == {<<"J", "P", "E", "G">>, <<"H", "E", "I", "C">>,
                <<"h", "e", "i", "c">>}

\* execSync('magick -list format'): a failure or a listing without "heic"
\* only prints a warning.
\* Mutation: an unconfirmed HEIC support ends the run like a missing tool.
JsFormatWarningFatal == Exit(1, "ToolUnavailable")

\* The two WARNING branches: lines are printed and main goes on to the
\* directory checks.
JsFormatWarning == pc' = "dircheck" /\ UNCHANGED <<exitCode, report>>

JsCheckFormats ==
  /\ frontend = "js" /\ pc = "formats"
  /\ \E ok \in BOOLEAN, formatList \in FormatLists :
       /\ heicWarned' = IF ok THEN ~includes(toLowerCase(formatList), Heic)
                              ELSE TRUE
       /\ IF heicWarned'
            THEN JsFormatWarning
            ELSE pc' = "dircheck" /\ UNCHANGED <<exitCode, report>>
  /\ UNCHANGED <<envVars, pdeVars, fs, targetFolder, deleteOriginals,
                 heicFiles, found, converted, failed, i, tried, statuses,
                 pattern, summary, inflight, outcomes, last,
                 enumerated, versionFailed>>

\* Mutation: an invalid directory is treated like an empty one.
JsInvalidDirectoryAsEmpty == Exit(0, "NoFiles")

\* "Directory not found" / "Path is not a directory", process.exit(1).
JsInvalidDirectory == Exit(1, "InvalidDirectory")

JsCheckDir ==
  /\ frontend = "js" /\ pc = "dircheck"
  /\ IF ~existsSync(targetFolder)
       THEN JsInvalidDirectory
     ELSE IF ~isDirectory(targetFolder)
       THEN JsInvalidDirectory
     ELSE pc' = "enumerate" /\ UNCHANGED <<exitCode, report>>
  /\ UNCHANGED <<envVars, pdeVars, fs, targetFolder, deleteOriginals,
                 heicFiles, found, converted, failed, i, tried, statuses,
                 pattern, heicWarned, summary, inflight, outcomes, last, enumerated,
                 versionFailed>>

\* Mutation: the empty directory is reported with process.exit(1).
JsNoFilesAsError == Exit(1, "NoFiles")

\* "No HEIC files found in the target directory", process.exit(0).
JsNoFiles == Exit(0, "NoFiles")

\* readdirSync + filter; an unreadable directory exits with status 1, an
\* empty result exits with status 0.
JsEnumerate ==
  /\ frontend = "js" /\ pc = "enumerate"
  /\ \E readable \in BOOLEAN :
       IF ~readable
         THEN /\ Exit(1, "CannotRead")
              /\ UNCHANGED <<heicFiles, found, enumerated>>
         ELSE /\ enumerated' = enumerated \cup {targetFolder}
              /\ heicFiles' = [n \in 1..Len(jsFilter(targetFolder)) |->
                                 Path(targetFolder, jsFilter(targetFolder)[n])]
              /\ found' = Len(jsFilter(targetFolder))
              /\ IF Len(jsFilter(targetFolder)) = 0
                   THEN JsNoFiles
                   ELSE pc' = "launch" /\ UNCHANGED <<exitCode, report>>
  /\ UNCHANGED <<envVars, pdeVars, fs, targetFolder, deleteOriginals,
                 converted, failed, i, tried, statuses, pattern, heicWarned,
                 summary, inflight, outcomes, last, versionFailed>>

\* Mutation: the two inner try blocks are swapped.
jsCommandsSwapped == <<"direct", "auto-orient", "explicit-format">>

\* The commands of the nested try blocks, outermost first.
jsCommands == <<"direct", "explicit-format", "auto-orient">>

\* The next execSync of the nested try blocks starts for heicFiles[i]:
\* the first one (pc = "launch") or the one in the catch block reached.
JsLaunch ==
  /\ frontend = "js" /\ pc \in {"launch", "retry"}
  /\ tried' = IF pc = "launch" THEN <<Command(heicFiles[i], jsCommands[1])>>
              ELSE Append(tried,
                          Command(heicFiles[i], jsCommands[Len(tried) + 1]))
  /\ statuses' = IF pc = "launch" THEN <<>> ELSE statuses
  /\ inflight' = inflight (+) SetToBag(
       {Command(heicFiles[i], IF pc = "launch" THEN jsCommands[1]
                              ELSE jsCommands[Len(tried) + 1])})
  /\ pc' = "wait"
  /\ UNCHANGED <<envVars, pdeVars, fs, targetFolder, deleteOriginals,
                 heicFiles, found, converted, failed, i, pattern, exitCode,
                 report, heicWarned, summary, outcomes, last, enumerated,
                 versionFailed>>

\* for (const fileName of heicFiles): on to the next file, or to the summary.
jsNext == IF i < Len(heicFiles) THEN "launch" ELSE "summary"

\* Mutation: the outer catch block forgets failed++.
jsAfterErrorUncounted(n) == n

\* What the outer catch (error) block does to the failed counter: failed++.
jsAfterError(n) == n + 1

\* The execSync in flight returns (status 0) or throws.
JsExit ==
  /\ frontend = "js" /\ pc = "wait"
  /\ inflight' = EmptyBag
  /\ \E status \in {0, 1} :
       /\ statuses' = Append(statuses, status)
       /\ IF status = 0
            THEN \* conversionSuccess = true; converted++
                 /\ converted' = converted + 1
                 /\ Record(Outcome(heicFiles[i], "Converted",
                                               deleteOriginals))
                 /\ IF deleteOriginals
                      THEN pc' = "delete" /\ i' = i
                      ELSE pc' = jsNext /\ i' = i + 1
                 /\ UNCHANGED failed
          ELSE IF Len(tried) < Len(jsCommands)
            THEN \* catch (error1) / catch (error2): retry
                 /\ pc' = "retry"
                 /\ UNCHANGED <<converted, failed, outcomes, last, i>>
            ELSE \* throw error3 -> catch (error): failed++
                 /\ failed' = jsAfterError(failed)
                 /\ Record(Outcome(heicFiles[i], "Failed",
                                               deleteOriginals))
                 /\ pc' = jsNext /\ i' = i + 1
                 /\ UNCHANGED converted
  /\ UNCHANGED <<envVars, pdeVars, fs, targetFolder, deleteOriginals,
                 heicFiles, found, tried, pattern, exitCode, report,
                 heicWarned, summary, enumerated, versionFailed>>

\* Mutation: a deletion failure is counted as a failed conversion.
jsAfterDeleteErrorCounted(n) == n + 1

\* What the catch (deleteError) block does to the failed counter: nothing,
\* it only prints a warning.
jsAfterDeleteError(n) == n

\* fs.unlinkSync(inputPath) inside its own try/catch.
JsDelete ==
  /\ frontend = "js" /\ pc = "delete"
  /\ \E ok \in BOOLEAN :
       IF ok
         THEN /\ fs' = Unlink(heicFiles[i])
              /\ Resolve(Outcome(heicFiles[i], "Converted", TRUE),
                                     "Deleted")
              /\ failed' = failed
         ELSE /\ fs' = fs
              /\ Resolve(Outcome(heicFiles[i], "Converted", TRUE),
                                     "DeleteFailed")
              /\ failed' = jsAfterDeleteError(failed)
  /\ pc' = jsNext /\ i' = i + 1
  /\ UNCHANGED <<envVars, pdeVars, targetFolder, deleteOriginals, heicFiles,
                 found, converted, tried, statuses, pattern, exitCode,
                 report, heicWarned, summary, inflight, enumerated,
                 versionFailed>>

\* The lines printed after the loop: "Files converted successfully" always,
\* "Files that failed" when failed > 0.
Summary(c, f) ==
  IF f > 0 THEN [converted |-> c, failed |-> f] ELSE [converted |-> c]

\* main() returns: the process ends with status 0.
JsSummary ==
  /\ frontend = "js" /\ pc = "summary"
  /\ summary' = Summary(converted, failed)
  /\ Exit(0, "Complete")
  /\ UNCHANGED <<envVars, pdeVars, fs, targetFolder, deleteOriginals,
                 heicFiles, found, converted, failed, i, tried, statuses,
                 pattern, heicWarned, inflight, outcomes, last, enumerated,
                 versionFailed>>

JsNext ==
  \/ JsParseArgs \/ JsCheckTool \/ JsCheckFormats \/ JsCheckDir
  \/ JsEnumerate \/ JsLaunch \/ JsExit \/ JsDelete \/ JsSummary

\* ================================================================= bat
\* %~n: the n-th argument without quotes, empty when absent.
batArg(n) == IF Len(args) >= n THEN args[n] ELSE <<>>

\* The two wildcards of "for %%f in (*.heic *.HEIC)".
BatPatterns == <<DotHeic, DotHEIC>>

\* The files one wildcard expands to in directory dir of file system f: the
\* file system compares names by case or not; "for" yields files only.
batGlob(f, dir, p) ==
  InListingOrder({e \in f[dir] :
     /\ e.isFile
     /\ IF caseSensitive
          THEN endsWith(e.name, BatPatterns[p])
          ELSE endsWith(toLowerCase(e.name), toLowerCase(BatPatterns[p]))})

\* The first wildcard from p on that expands to at least one file; beyond
\* the last wildcard when none does.
RECURSIVE batFirstPattern(_, _, _)
batFirstPattern(f, dir, p) ==
  IF p > Len(BatPatterns) THEN p
  ELSE IF Len(batGlob(f, dir, p)) > 0 THEN p
  ELSE batFirstPattern(f, dir, p + 1)

batPaths(f, dir, p) ==
  IF p > Len(BatPatterns) THEN <<>>
  ELSE [n \in 1..Len(batGlob(f, dir, p)) |-> Path(dir, batGlob(f, dir, p)[n])]

\* set /a count+=1 for every file of every wildcard.
RECURSIVE batCount(_, _, _)
batCount(f, dir, p) ==
  IF p > Len(BatPatterns) THEN 0
  ELSE Len(batGlob(f, dir, p)) + batCount(f, dir, p + 1)

BatParseArgs ==
  /\ frontend = "bat" /\ pc = "args"
  /\ IF batArg(1) = DeleteWord
       THEN targetFolder' = Cwd /\ deleteOriginals' = TRUE
     ELSE IF batArg(2) = DeleteWord
       THEN targetFolder' = resolve(batArg(1)) /\ deleteOriginals' = TRUE
     ELSE IF batArg(1) = <<>>
       THEN targetFolder' = Cwd /\ deleteOriginals' = FALSE
     ELSE targetFolder' = resolve(batArg(1)) /\ deleteOriginals' = FALSE
  /\ pc' = "dircheck"
  /\ UNCHANGED <<envVars, pdeVars, fs, heicFiles, found, converted, failed, i,
                 tried, statuses, pattern, exitCode, report, heicWarned,
                 summary, inflight, outcomes, last, enumerated, versionFailed>>

\* "if not exist" and pushd, only when a folder argument was given.
BatCheckDir ==
  /\ frontend = "bat" /\ pc = "dircheck"
  /\ IF batArg(1) # <<>> /\ batArg(1) # DeleteWord
       THEN IF ~existsSync(targetFolder)
              THEN Exit(1, "InvalidDirectory")
            ELSE IF ~isDirectory(targetFolder)
              THEN Exit(1, "InvalidDirectory")
            ELSE pc' = "probe" /\ UNCHANGED <<exitCode, report>>
       ELSE pc' = "probe" /\ UNCHANGED <<exitCode, report>>
  /\ UNCHANGED <<envVars, pdeVars, fs, targetFolder, deleteOriginals,
                 heicFiles, found, converted, failed, i, tried, statuses,
                 pattern, heicWarned, summary, inflight, outcomes, last, enumerated,
                 versionFailed>>

\* magick -version; if errorlevel 1 -> exit /b 1
BatCheckTool ==
  /\ frontend = "bat" /\ pc = "probe"
  /\ \E errorlevel \in {0, 1} :
       IF errorlevel >= 1
         THEN /\ Exit(1, "ToolUnavailable")
              /\ versionFailed' = TRUE
         ELSE /\ pc' = "formats"
              /\ UNCHANGED <<exitCode, report, versionFailed>>
  /\ UNCHANGED <<envVars, pdeVars, fs, targetFolder, deleteOriginals,
                 heicFiles, found, converted, failed, i, tried, statuses,
                 pattern, heicWarned, summary, inflight, outcomes, last, enumerated>>

\* magick -list format | findstr -i heic: only a warning.
BatCheckFormats ==
  /\ frontend = "bat" /\ pc = "formats"
  /\ \E ok \in BOOLEAN, formatList \in FormatLists :
       heicWarned' = IF ok THEN ~includes(toLowerCase(formatList), Heic)
                           ELSE TRUE
  /\ pc' = "count"
  /\ UNCHANGED <<envVars, pdeVars, fs, targetFolder, deleteOriginals,
                 heicFiles, found, converted, failed, i, tried, statuses,
                 pattern, exitCode, report, summary, inflight, outcomes, last,
                 enumerated, versionFailed>>

\* The counting loop, "if %count%==0 ... exit /b 0", and the entry into the
\* conversion loop with the expansion of its first wildcard.
BatCount ==
  /\ frontend = "bat" /\ pc = "count"
  /\ enumerated' = enumerated \cup {targetFolder}
  /\ found' = batCount(fs, targetFolder, 1)
  /\ IF batCount(fs, targetFolder, 1) = 0
       THEN /\ Exit(0, "NoFiles")
            /\ UNCHANGED <<pattern, heicFiles>>
       ELSE /\ pattern' = batFirstPattern(fs, targetFolder, 1)
            /\ heicFiles' = batPaths(fs, targetFolder,
                                     batFirstPattern(fs, targetFolder, 1))
            /\ pc' = "launch"
            /\ UNCHANGED <<exitCode, report>>
  /\ UNCHANGED <<envVars, pdeVars, fs, targetFolder, deleteOriginals,
                 converted, failed, i, tried, statuses, heicWarned, summary,
                 inflight, outcomes, last, versionFailed>>

\* The magick commands of the loop body, top to bottom.
batCommands == <<"direct", "explicit-format", "auto-orient">>

\* The next magick command of the loop body starts: the first one always
\* (pc = "launch"), the second and third under "if !errorlevel! neq 0".
BatLaunch ==
  /\ frontend = "bat" /\ pc \in {"launch", "retry"}
  /\ tried' = IF pc = "launch" THEN <<Command(heicFiles[i], batCommands[1])>>
              ELSE Append(tried,
                          Command(heicFiles[i], batCommands[Len(tried) + 1]))
  /\ statuses' = IF pc = "launch" THEN <<>> ELSE statuses
  /\ inflight' = inflight (+) SetToBag(
       {Command(heicFiles[i], IF pc = "launch" THEN batCommands[1]
                              ELSE batCommands[Len(tried) + 1])})
  /\ pc' = "wait"
  /\ UNCHANGED <<envVars, pdeVars, fs, targetFolder, deleteOriginals,
                 heicFiles, found, converted, failed, i, pattern, exitCode,
                 report, heicWarned, summary, outcomes, last, enumerated,
                 versionFailed>>

\* End of the loop body: the next file of this wildcard, else the expansion
\* of the next wildcard against file system f, else the summary.
BatAdvance(f) ==
  IF i < Len(heicFiles)
    THEN /\ i' = i + 1 /\ pc' = "launch"
         /\ UNCHANGED <<pattern, heicFiles>>
    ELSE /\ i' = 1
         /\ pattern' = batFirstPattern(f, targetFolder, pattern + 1)
         /\ heicFiles' = batPaths(f, targetFolder,
                            batFirstPattern(f, targetFolder, pattern + 1))
         /\ pc' = IF batFirstPattern(f, targetFolder, pattern + 1)
                       > Len(BatPatterns)
                    THEN "summary" ELSE "launch"

\* The magick command in flight ends with an errorlevel; the "if" lines that
\* follow it run.
BatExit ==
  /\ frontend = "bat" /\ pc = "wait"
  /\ inflight' = EmptyBag
  /\ \E errorlevel \in {0, 1} :
       /\ statuses' = Append(statuses, errorlevel)
       /\ IF errorlevel # 0 /\ Len(tried) < Len(batCommands)
            THEN /\ pc' = "retry"
                 /\ UNCHANGED <<converted, failed, outcomes, last, i, pattern,
                                heicFiles>>
          ELSE IF errorlevel = 0
            THEN \* set /a converted+=1
                 /\ converted' = converted + 1
                 /\ Record(Outcome(heicFiles[i], "Converted",
                                               deleteOriginals))
                 /\ IF deleteOriginals
                      THEN /\ pc' = "delete"
                           /\ UNCHANGED <<i, pattern, heicFiles>>
                      ELSE BatAdvance(fs)
                 /\ UNCHANGED failed
            ELSE \* set /a failed+=1
                 /\ failed' = failed + 1
                 /\ Record(Outcome(heicFiles[i], "Failed",
                                               deleteOriginals))
                 /\ BatAdvance(fs)
                 /\ UNCHANGED converted
  /\ UNCHANGED <<envVars, pdeVars, fs, targetFolder, deleteOriginals, found,
                 tried, exitCode, report, heicWarned, summary, enumerated,
                 versionFailed>>

\* del "%%f"
BatDelete ==
  /\ frontend = "bat" /\ pc = "delete"
  /\ \E ok \in BOOLEAN :
       IF ok
         THEN /\ fs' = Unlink(heicFiles[i])
              /\ Resolve(Outcome(heicFiles[i], "Converted", TRUE),
                                     "Deleted")
              /\ BatAdvance(Unlink(heicFiles[i]))
         ELSE /\ fs' = fs
              /\ Resolve(Outcome(heicFiles[i], "Converted", TRUE),
                                     "DeleteFailed")
              /\ BatAdvance(fs)
  /\ UNCHANGED <<envVars, pdeVars, targetFolder, deleteOriginals, found,
                 converted, failed, tried, statuses, exitCode, report,
                 heicWarned, summary, inflight, enumerated, versionFailed>>

\* The closing echo lines; the script ends with status 0.
BatSummary ==
  /\ frontend = "bat" /\ pc = "summary"
  /\ summary' = Summary(converted, failed)
  /\ Exit(0, "Complete")
  /\ UNCHANGED <<envVars, pdeVars, fs, targetFolder, deleteOriginals,
                 heicFiles, found, converted, failed, i, tried, statuses,
                 pattern, heicWarned, inflight, outcomes, last, enumerated,
                 versionFailed>>

BatNext ==
  \/ BatParseArgs \/ BatCheckDir \/ BatCheckTool \/ BatCheckFormats
  \/ BatCount \/ BatLaunch \/ BatExit \/ BatDelete \/ BatSummary

\* ================================================================= pde
\* The sketch runs three kinds of threads: the animation thread (setup,
\* mousePressed), the thread that delivers folderSelected, and one thread
\* per thread("convertFiles").  A handler (setup, one mousePressed,
\* folderSelected with its scanFolder) is one action; a conversion thread
\* takes one step per subprocess it waits for and per access to a shared
\* counter.  The conversion threads run the same code and have no identity
\* of their own, so they are kept as a bag of thread-local states; a thread
\* that returns or dies leaves the bag.  Of currentStatus only the error
\* set by setup is kept (in report); the console output is not modelled.

NoFile == [dir |-> <<>>, name |-> <<>>]

\* What was in effect at the latest click that started a run: the file
\* list, the delete setting, and whether a run was ever started while
\* another one was active.  The code keeps no such copy; the record is kept
\* for the properties.
NoRun == [files |-> <<>>, del |-> FALSE, overlap |-> FALSE]

\* A conversion thread at the top of convertFiles' loop with index n.
AtLoopTest(n) ==
  [pc |-> "test", i |-> n, file |-> NoFile, tried |-> <<>>,
   statuses |-> <<>>, tmp |-> 0]

\* Thread-local state t becomes t2.
Step(t, t2) == (workers (-) SetToBag({t})) (+) SetToBag({t2})

\* Thread t ends.
End(t) == workers (-) SetToBag({t})

\* findHeicFiles(folderPath): nothing for a path that is missing or not a
\* directory, else the entries that are files and end in ".heic" once
\* lower-cased.
findHeicFiles(folderPath) ==
  IF ~existsSync(folderPath) \/ ~isDirectory(folderPath)
    THEN <<>>
    ELSE [n \in 1..Len(InListingOrder({e \in fs[folderPath] :
                 e.isFile /\ endsWith(toLowerCase(e.name), DotHeic)})) |->
            Path(folderPath, InListingOrder({e \in fs[folderPath] :
                 e.isFile /\ endsWith(toLowerCase(e.name), DotHeic)})[n])]

\* Whether findHeicFiles(folderPath) lists the directory.
pdeLists(folderPath) == existsSync(folderPath) /\ isDirectory(folderPath)

\* scanFolder: the reset of the conversion state.
scanReset(u) ==
  [u EXCEPT !.isConverting = FALSE, !.conversionComplete = FALSE,
            !.currentFileIndex = 0]

\* scanFolder: after heicFiles = findHeicFiles(folderPath).
scanFound(u, files) ==
  [u EXCEPT !.filesScanned = TRUE, !.startEnabled = (Len(files) # 0)]

\* setup(): checkImageMagick, then scanFolder when TARGET_FOLDER is preset.
PdeSetup ==
  /\ frontend = "pde" /\ pc = "setup"
  /\ pc' = "running"
  /\ \E ok \in BOOLEAN :
       IF ~ok
         THEN /\ report' = "ToolUnavailable"
              /\ versionFailed' = TRUE
              /\ UNCHANGED <<ui, heicFiles, found, enumerated>>
         ELSE /\ UNCHANGED <<report, versionFailed>>
              /\ IF targetFolder # <<>>
                   THEN /\ ui' = scanFound(
                                   scanReset([ui EXCEPT !.uiInitialized = TRUE]),
                                   findHeicFiles(targetFolder))
                        /\ heicFiles' = findHeicFiles(targetFolder)
                        /\ found' = Len(findHeicFiles(targetFolder))
                        /\ enumerated' = IF pdeLists(targetFolder)
                                           THEN enumerated \cup {targetFolder}
                                           ELSE enumerated
                   ELSE /\ ui' = [ui EXCEPT !.uiInitialized = TRUE]
                        /\ UNCHANGED <<heicFiles, found, enumerated>>
  /\ UNCHANGED <<envVars, fs, targetFolder, deleteOriginals, converted,
                 failed, i, tried, statuses, pattern, exitCode, heicWarned,
                 summary, inflight, outcomes, last, workers, scan, started>>

\* mousePressed on the Select Folder button: selectFolder opens the dialog;
\* its answer arrives later through folderSelected.  The dialog is modal:
\* until it is answered the sketch's window receives no click, while the
\* conversion threads keep running.
PdeClickFolder ==
  /\ frontend = "pde" /\ pc = "running"
  /\ ui.uiInitialized
  /\ scan.pc = "idle" /\ scan.count < MaxScans
  /\ scan' = [scan EXCEPT !.pc = "dialog", !.count = @ + 1]
  /\ UNCHANGED <<envVars, fs, pc, targetFolder, deleteOriginals, heicFiles,
                 found, converted, failed, i, tried, statuses, pattern,
                 exitCode, report, heicWarned, summary, inflight, outcomes, last,
                 enumerated, versionFailed, ui, workers, started>>

\* mousePressed on the checkbox: Checkbox.isClicked flips checked, then
\* DELETE_ORIGINALS = deleteCheckbox.checked.
PdeClickCheckbox ==
  /\ frontend = "pde" /\ pc = "running"
  /\ ui.uiInitialized
  /\ scan.pc = "idle"
  /\ ui' = [ui EXCEPT !.checked = ~@]
  /\ deleteOriginals' = ~ui.checked
  /\ UNCHANGED <<envVars, fs, pc, targetFolder, heicFiles, found, converted,
                 failed, i, tried, statuses, pattern, exitCode, report,
                 heicWarned, summary, inflight, outcomes, last, enumerated,
                 versionFailed, workers, scan, started>>

\* The guard of mousePressed under which thread("convertFiles") is called;
\* heicFiles is null until the first scan.
pdeMayStart ==
  /\ ui.startEnabled
  /\ ~ui.isConverting /\ ~ui.conversionComplete
  /\ ui.filesScanned /\ Len(heicFiles) > 0

\* mousePressed on the Start Conversion button, when its guard passes: a
\* new thread starts at the top of convertFiles.
PdeClickStart ==
  /\ frontend = "pde" /\ pc = "running"
  /\ ui.uiInitialized
  /\ scan.pc = "idle"
  /\ pdeMayStart
  /\ BagCardinality(workers) < MaxWorkers
  /\ workers' = workers (+) SetToBag({AtLoopTest(0)})
  /\ started' = [files |-> heicFiles, del |-> deleteOriginals,
                 overlap |-> started.overlap \/ workers # EmptyBag]
  /\ ui' = [ui EXCEPT !.isConverting = TRUE]
  /\ UNCHANGED <<envVars, fs, pc, targetFolder, deleteOriginals, heicFiles,
                 found, converted, failed, i, tried, statuses, pattern,
                 exitCode, report, heicWarned, summary, inflight, outcomes, last,
                 enumerated, versionFailed, scan>>

\* The folders the dialog can answer with; <<>> stands for null (cancelled).
Selections == {<<>>, Cwd, Photos, NoDir, AFile}

\* folderSelected(selection): null changes nothing the model keeps; else
\* TARGET_FOLDER = selection and scanFolder(TARGET_FOLDER).
PdeFolderSelected ==
  /\ frontend = "pde" /\ scan.pc = "dialog"
  /\ \E selection \in Selections :
       IF selection = <<>>
         THEN UNCHANGED <<targetFolder, ui, converted, failed, heicFiles,
                          found, enumerated>>
         ELSE /\ targetFolder' = selection
              /\ ui' = scanFound(scanReset(ui), findHeicFiles(selection))
              /\ converted' = 0
              /\ failed' = 0
              /\ heicFiles' = findHeicFiles(selection)
              /\ found' = Len(findHeicFiles(selection))
              /\ enumerated' = IF pdeLists(selection)
                                 THEN enumerated \cup {selection}
                                 ELSE enumerated
  /\ scan' = [scan EXCEPT !.pc = "idle"]
  /\ UNCHANGED <<envVars, fs, pc, deleteOriginals, i, tried, statuses,
                 pattern, exitCode, report, heicWarned, summary, inflight,
                 outcomes, last, versionFailed, workers, started>>

\* The commands array of convertSingleFile.
pdeCommands == <<"direct", "explicit-format", "auto-orient">>

\* convertFiles: the loop test "i < heicFiles.size()"; past the end, the
\* lines after the loop, and the thread returns.
PdeLoopTest(t) ==
  /\ frontend = "pde" /\ t.pc = "test"
  /\ IF t.i < Len(heicFiles)
       THEN /\ ui' = [ui EXCEPT !.currentFileIndex = t.i]
            /\ workers' = Step(t, [t EXCEPT !.pc = "get"])
       ELSE /\ ui' = [ui EXCEPT !.currentFileIndex = Len(heicFiles),
                                !.isConverting = FALSE,
                                !.conversionComplete = TRUE]
            /\ workers' = End(t)
  /\ UNCHANGED <<envVars, fs, pc, targetFolder, deleteOriginals, heicFiles,
                 found, converted, failed, i, tried, statuses, pattern,
                 exitCode, report, heicWarned, summary, inflight, outcomes, last,
                 enumerated, versionFailed, scan, started>>

\* heicFiles.get(i) and the first command of convertSingleFile; get throws
\* when the list has become shorter, which ends the thread.
PdeGet(t) ==
  /\ frontend = "pde" /\ t.pc = "get"
  /\ IF t.i < Len(heicFiles)
       THEN /\ workers' = Step(t, [t EXCEPT !.file = heicFiles[t.i + 1],
                                           !.tried = <<pdeCommands[1]>>,
                                           !.pc = "wait"])
            /\ inflight' = inflight (+) SetToBag(
                 {Command(heicFiles[t.i + 1], pdeCommands[1])})
       ELSE /\ workers' = End(t)
            /\ UNCHANGED inflight
  /\ UNCHANGED <<envVars, fs, pc, targetFolder, deleteOriginals, heicFiles,
                 found, converted, failed, i, tried, statuses, pattern,
                 exitCode, report, heicWarned, summary, outcomes, last, enumerated,
                 versionFailed, ui, scan, started>>

\* The command of thread t that is running.
Running(t) == Command(t.file, t.tried[Len(t.tried)])

\* process.waitFor() returns (or exec threw): exit code 0 returns true, any
\* other result moves on to the next command, and after the last command
\* convertSingleFile returns false.  The counter to increment is read.
PdeExit(t) ==
  /\ frontend = "pde" /\ t.pc = "wait"
  /\ \E exitCodeW \in {0, 1} :
       IF exitCodeW = 0
         THEN /\ workers' = Step(t, [t EXCEPT !.statuses = Append(@, exitCodeW),
                                             !.tmp = converted,
                                             !.pc = "incConverted"])
              /\ inflight' = inflight (-) SetToBag({Running(t)})
       ELSE IF Len(t.tried) < Len(pdeCommands)
         THEN /\ workers' = Step(t,
                   [t EXCEPT !.statuses = Append(@, exitCodeW),
                             !.tried = Append(@, pdeCommands[Len(@) + 1])])
              /\ inflight' = (inflight (-) SetToBag({Running(t)})) (+)
                   SetToBag({Command(t.file, pdeCommands[Len(t.tried) + 1])})
         ELSE /\ workers' = Step(t, [t EXCEPT !.statuses = Append(@, exitCodeW),
                                             !.tmp = failed,
                                             !.pc = "incFailed"])
              /\ inflight' = inflight (-) SetToBag({Running(t)})
  /\ UNCHANGED <<envVars, fs, pc, targetFolder, deleteOriginals, heicFiles,
                 found, converted, failed, i, tried, statuses, pattern,
                 exitCode, report, heicWarned, summary, outcomes, last, enumerated,
                 versionFailed, ui, scan, started>>

\* convertedCount++ (the write) and "if (DELETE_ORIGINALS)": on to the
\* deletion, or to the next iteration.
PdeConverted(t) ==
  /\ frontend = "pde" /\ t.pc = "incConverted"
  /\ converted' = t.tmp + 1
  /\ workers' = IF deleteOriginals
                  THEN Step(t, [t EXCEPT !.pc = "delete", !.tmp = 0])
                  ELSE Step(t, AtLoopTest(t.i + 1))
  /\ UNCHANGED <<envVars, fs, pc, targetFolder, deleteOriginals, heicFiles,
                 found, failed, i, tried, statuses, pattern, exitCode, report,
                 heicWarned, summary, inflight, outcomes, last, enumerated,
                 versionFailed, ui, scan, started>>

\* failedCount++ (the write), then the next iteration.
PdeFailed(t) ==
  /\ frontend = "pde" /\ t.pc = "incFailed"
  /\ failed' = t.tmp + 1
  /\ workers' = Step(t, AtLoopTest(t.i + 1))
  /\ UNCHANGED <<envVars, fs, pc, targetFolder, deleteOriginals, heicFiles,
                 found, converted, i, tried, statuses, pattern, exitCode,
                 report, heicWarned, summary, inflight, outcomes, last, enumerated,
                 versionFailed, ui, scan, started>>

\* inputFile.delete(), then the next iteration.
PdeDelete(t) ==
  /\ frontend = "pde" /\ t.pc = "delete"
  /\ \E ok \in BOOLEAN :
       fs' = IF ok /\ t.file.dir \in ValidDirs THEN Unlink(t.file) ELSE fs
  /\ workers' = Step(t, AtLoopTest(t.i + 1))
  /\ UNCHANGED <<envVars, pc, targetFolder, deleteOriginals, heicFiles, found,
                 converted, failed, i, tried, statuses, pattern, exitCode,
                 report, heicWarned, summary, inflight, outcomes, last, enumerated,
                 versionFailed, ui, scan, started>>

PdeNext ==
  \/ PdeSetup \/ PdeClickFolder \/ PdeClickCheckbox \/ PdeClickStart
  \/ PdeFolderSelected
  \/ \E t \in BagToSet(workers) :
       \/ PdeLoopTest(t) \/ PdeGet(t) \/ PdeExit(t)
       \/ PdeConverted(t) \/ PdeFailed(t) \/ PdeDelete(t)

\* ================================================================= init
\* Directory contents Init draws from.
DirContents == {S \in SUBSET Universe : Cardinality(S) <= MaxEntries}

ArgLists == {<<>>, <<DeleteWord>>, <<DeleteUpper>>, <<Photos>>,
             <<Photos, DeleteWord>>, <<NoDir>>, <<AFile>>,
             <<Photos, DeleteWord, Extra>>}

\* Directory contents the sketch is explored on.
PdeContents == {{FileA, Notes}, {FileA, FileC, SubDir}}

\* The values TARGET_FOLDER is configured with; <<>> stands for "".
PresetFolders == {<<>>, Cwd, Photos, NoDir}

NoSummary == [none |-> TRUE]

\* No result has been printed yet.
NoOutcome == [file |-> [dir |-> <<>>, name |-> <<>>], result |-> "None",
              delFlag |-> FALSE, del |-> "NotAttempted"]

\* The state before main() runs (js, bat).
InitCli ==
  /\ frontend \in {"js", "bat"}
  /\ caseSensitive \in (IF frontend = "bat" THEN BOOLEAN ELSE {FALSE})
  /\ args \in ArgLists
  /\ pc = "args"
  /\ targetFolder = Cwd
  /\ fs \in {[d \in ValidDirs |-> IF d = Cwd THEN CwdEntries ELSE S] :
               S \in DirContents}
  /\ ui = [uiInitialized |-> FALSE]
  /\ workers = EmptyBag
  /\ scan = [pc |-> "idle"]
  /\ started = NoRun

\* The sketch's globals before setup(): TARGET_FOLDER as configured,
\* DELETE_ORIGINALS = false, heicFiles unset, the counters zero.
InitPde ==
  /\ frontend = "pde"
  /\ caseSensitive = FALSE
  /\ args = <<>>
  /\ pc = "setup"
  /\ targetFolder \in PresetFolders
  /\ fs \in {[d \in ValidDirs |-> IF d = Cwd THEN CwdEntries ELSE S] :
               S \in PdeContents}
  /\ ui = [uiInitialized |-> FALSE, filesScanned |-> FALSE,
           isConverting |-> FALSE, conversionComplete |-> FALSE,
           currentFileIndex |-> 0, startEnabled |-> FALSE, checked |-> FALSE]
  /\ workers = EmptyBag
  /\ scan = [pc |-> "idle", count |-> 0]
  /\ started = NoRun

Init ==
  /\ InitCli \/ InitPde
  /\ deleteOriginals = FALSE
  /\ heicFiles = <<>>
  /\ found = 0
  /\ converted = 0
  /\ failed = 0
  /\ i = 1
  /\ tried = <<>>
  /\ statuses = <<>>
  /\ pattern = 1
  /\ exitCode = -1
  /\ report = "none"
  /\ heicWarned = FALSE
  /\ summary = NoSummary
  /\ inflight = EmptyBag
  /\ outcomes = EmptyBag
  /\ last = NoOutcome
  /\ enumerated = {}
  /\ versionFailed = FALSE

Next ==
  \/ JsNext
  \/ BatNext
  \/ PdeNext

Spec == Init /\ [][Next]_vars

\* ============================================================ properties
\* The order of the strategies the specification fixes.
Strategies == <<"direct", "explicit-format", "auto-orient">>

IsPrefix(s, t) == Len(s) <= Len(t) /\ s = SubSeq(t, 1, Len(s))

\* The number of elements of bag B that lie in set S.
RECURSIVE Copies(_, _)
Copies(B, S) ==
  IF S = {} THEN 0
  ELSE LET x == CHOOSE y \in S : TRUE
       IN  CopiesIn(x, B) + Copies(B, S \ {x})

\* The number of printed results with the given result.
Tally(result) ==
  Copies(outcomes, {o \in BagToSet(outcomes) : o.result = result})

Threads == BagToSet(workers)

\* Thread t takes a step.
Moves(t) == CopiesIn(t, workers') < CopiesIn(t, workers)

NonZero(sts) == \A j \in 1..Len(sts) : sts[j] # 0

\* The strategies are a prefix of the fixed order, every command but the
\* latest has exited, and nothing was started after an exit status 0.
InOrderUntilSuccess(strats, sts) ==
  /\ IsPrefix(strats, Strategies)
  /\ Len(sts) <= Len(strats) /\ Len(strats) <= Len(sts) + 1
  /\ \A j \in 1..Len(sts) : sts[j] = 0 => (j = Len(sts) /\ Len(strats) = j)

Cli == frontend \in {"js", "bat"}

\* js, bat: the commands in tried are over and the target's result is printed.
Decided == tried # <<>> /\ pc \notin {"wait", "retry"}

\* ------------------------------------------------------------------- C1
\* C1: once the version query of the external tool has failed, the run has
\* listed no directory, started no conversion and deleted nothing, it
\* reports the tool as unavailable, the command-line front ends have ended
\* with exit status 1, and in the sketch the interface is never initialized,
\* so that no click can start a folder selection or a conversion.
C1_ToolUnavailable ==
  versionFailed =>
    /\ report = "ToolUnavailable"
    /\ enumerated = {} /\ heicFiles = <<>> /\ found = 0
    /\ tried = <<>> /\ inflight = EmptyBag /\ outcomes = EmptyBag
    /\ converted = 0 /\ failed = 0
    /\ Cli => (pc = "exited" /\ exitCode = 1 /\ summary = NoSummary)
    /\ frontend = "pde" =>
         /\ ~ui.uiInitialized /\ ~pdeMayStart
         /\ workers = EmptyBag /\ scan = [pc |-> "idle", count |-> 0]
         /\ fs[Photos] \in PdeContents

\* A command-line run whose version query failed has ended.
C1_Witness == versionFailed /\ pc = "exited" /\ exitCode = 1

\* ------------------------------------------------------------------- C2
\* C2: when a run has finished, converted + failed equals the number of
\* files found, whatever the strategies' results and the user's actions
\* were (js: the summary was printed; sketch: conversionComplete is set).
C2_OneOutcomePerTarget ==
  /\ (frontend = "js" /\ report = "Complete") =>
        /\ converted + failed = found
        /\ BagCardinality(outcomes) = found
  /\ (frontend = "pde" /\ ui.conversionComplete) =>
        /\ converted + failed = found
        /\ found = Len(heicFiles)

\* ------------------------------------------------------------------- C3
\* C3: for each target the commands started are a prefix of direct,
\* explicit-format, auto-orient, all on that same file; a command starts
\* only after the previous one exited non-zero; once a command exits with
\* status 0 no further command starts for the target and the target's
\* result is Converted.
C3_OrderAndShortCircuit ==
  /\ Cli =>
       /\ InOrderUntilSuccess([j \in 1..Len(tried) |-> tried[j].strategy],
                              statuses)
       /\ \A j \in 1..Len(tried) : tried[j].file = tried[1].file
       /\ IF pc = "wait"
            THEN /\ Len(tried) = Len(statuses) + 1
                 /\ inflight = SetToBag({tried[Len(tried)]})
            ELSE Len(tried) = Len(statuses) /\ inflight = EmptyBag
       /\ pc = "retry" => (NonZero(statuses) /\ Len(tried) < Len(Strategies))
       /\ Decided =>
            /\ last.file = tried[1].file
            /\ last.result = "Converted" <=> statuses[Len(statuses)] = 0
  /\ \A t \in Threads :
       t.pc \in {"wait", "incConverted", "incFailed", "delete"} =>
         /\ InOrderUntilSuccess(t.tried, t.statuses)
         /\ t.pc = "wait" <=> Len(t.tried) = Len(t.statuses) + 1
         /\ t.pc = "wait" => CopiesIn(Running(t), inflight) >= 1
         /\ t.pc \in {"incConverted", "delete"} <=>
              (t.statuses # <<>> /\ t.statuses[Len(t.statuses)] = 0)
  /\ frontend = "pde" =>
       BagCardinality(inflight) =
         Copies(workers, {t \in Threads : t.pc = "wait"})

\* The second command converted the file; the third was never started.
C3_Witness ==
  /\ Cli /\ statuses = <<1, 0>> /\ Len(tried) = 2
  /\ last.result = "Converted" /\ last.file = tried[1].file

\* ------------------------------------------------------------------- C4
\* js, bat and the threads' positions: a target fails exactly after three
\* non-zero exit statuses, and a failed target has no deletion.
C4_Invariant ==
  /\ Cli =>
       /\ failed = Tally("Failed") /\ converted = Tally("Converted")
       /\ \A o \in BagToSet(outcomes) :
            o.result = "Failed" => o.del = "NotAttempted"
       /\ (Len(statuses) = Len(Strategies) /\ NonZero(statuses)) =>
            /\ last.result = "Failed" /\ last.file = tried[1].file
            /\ last.del = "NotAttempted" /\ pc # "delete"
       /\ (Decided /\ last.result = "Failed") =>
            (Len(statuses) = Len(Strategies) /\ NonZero(statuses))
  /\ \A t \in Threads :
       t.pc = "incFailed" <=>
         (Len(t.statuses) = Len(Strategies) /\ NonZero(t.statuses))

\* Sketch: the step of a thread whose file failed all three commands.
C4_PdeStep ==
  \A t \in Threads :
    (t.pc = "incFailed" /\ Moves(t)) =>
       /\ failed' = t.tmp + 1
       /\ converted' = converted /\ fs' = fs
       /\ workers' = Step(t, AtLoopTest(t.i + 1))

\* C4: when all three commands of a target exited non-zero, the target's
\* result is Failed, the failed counter is incremented and the converted
\* counter is not, and no deletion follows, with either delete setting
\* (command line: the counters equal the numbers of Failed and Converted
\* results printed; sketch: the thread writes failedCount = the value it
\* read + 1 and touches neither convertedCount nor the file system).
C4_AllFailedIsFailed == []C4_Invariant /\ [][C4_PdeStep]_vars

\* With deletion requested, a file failed all three commands.
C4_Witness ==
  /\ Cli /\ statuses = <<1, 1, 1>> /\ deleteOriginals
  /\ last.result = "Failed" /\ failed >= 1

\* ------------------------------------------------------------------- C5
\* js, bat: what the printed results say about deletions and counters.
C5_Invariant ==
  /\ Cli =>
       /\ \A o \in BagToSet(outcomes) :
            /\ o.delFlag = deleteOriginals
            /\ o.del # "NotAttempted" <=> (o.result = "Converted" /\ o.delFlag)
            /\ o.del = "Pending" => (pc = "delete" /\ o = last)
            /\ o.del = "Deleted" =>
                 \A e \in fs[o.file.dir] : e.name # o.file.name
       /\ pc = "delete" <=> last.del = "Pending"
       /\ last.del = "DeleteFailed" =>
            \E e \in fs[last.file.dir] : e.name = last.file.name
       /\ converted = Tally("Converted") /\ failed = Tally("Failed")
  /\ \A t \in Threads :
       t.pc = "delete" => t.statuses[Len(t.statuses)] = 0

\* Sketch: the steps of a thread after a conversion and at a deletion, and
\* where deletions and file-system changes come from.
C5_PdeStep ==
  /\ \A t \in Threads :
       (t.pc = "incConverted" /\ Moves(t)) =>
          /\ converted' = t.tmp + 1 /\ failed' = failed /\ fs' = fs
          /\ workers' = Step(t, IF deleteOriginals
                                  THEN [t EXCEPT !.pc = "delete", !.tmp = 0]
                                  ELSE AtLoopTest(t.i + 1))
  /\ \A t \in Threads :
       (t.pc = "delete" /\ Moves(t)) =>
          /\ converted' = converted /\ failed' = failed
          /\ fs' \in {fs, Unlink(t.file)}
          /\ workers' = Step(t, AtLoopTest(t.i + 1))
  /\ (frontend = "pde" /\ fs' # fs) =>
       \E t \in Threads : t.pc = "delete" /\ Moves(t)
  /\ \A t \in BagToSet(workers') :
       (t.pc = "delete" /\ CopiesIn(t, workers') > CopiesIn(t, workers)) =>
          deleteOriginals /\ \E u \in Threads : u.pc = "incConverted" /\ Moves(u)

\* C5: the original is deleted (or the deletion tried) exactly for the
\* targets whose result is Converted while the delete setting is on, right
\* after the conversion; a deletion that fails leaves the file in place,
\* the target counted as converted and the failed counter untouched.
C5_DeleteIffConverted == []C5_Invariant /\ [][C5_PdeStep]_vars

\* A run has ended in which a deletion failed and nothing failed to convert.
C5_Witness ==
  /\ Cli /\ report = "Complete" /\ failed = 0 /\ converted >= 1
  /\ \E o \in BagToSet(outcomes) : o.del = "DeleteFailed"

\* ------------------------------------------------------------------- C6
\* C6: in every reachable state at most one conversion subprocess is in
\* flight and at most one conversion run (thread of convertFiles) is active.
C6_StrictlySequential ==
  /\ BagCardinality(inflight) <= 1
  /\ BagCardinality(workers) <= 1

\* ------------------------------------------------------------------- C7
\* The target is set and is missing or not a directory.
InvalidTarget == targetFolder # <<>> /\ ~isDirectory(targetFolder)

\* The front end has come to its directory check with the tool available.
DirChecked ==
  CASE frontend = "js" ->
         pc \notin {"args", "probe", "formats", "dircheck"} /\ ~versionFailed
    [] frontend = "bat" -> pc \notin {"args", "dircheck"}
    [] frontend = "pde" -> pc = "running" /\ ~versionFailed

\* Nothing has been listed, converted or deleted in the target directory.
TargetUntouched ==
  /\ targetFolder \notin enumerated
  /\ \A c \in BagToSet(inflight) : c.file.dir # targetFolder
  /\ \A o \in BagToSet(outcomes) : o.file.dir # targetFolder
  /\ \A t \in Threads : t.file.dir # targetFolder
  /\ \A n \in 1..Len(heicFiles) : heicFiles[n].dir # targetFolder

Candidates(dir) ==
  {e \in fs[dir] : e.isFile /\ endsWith(toLowerCase(e.name), DotHeic)}

NoCandidates(dir) == isDirectory(dir) /\ Candidates(dir) = {}

NoneDeleted == \A o \in BagToSet(outcomes) : o.del # "Deleted"

\* js, bat: the run on a directory without candidates; sketch: no start
\* while the scanned list is empty.
C8_Invariant ==
  /\ (Cli /\ NoCandidates(targetFolder) /\ NoneDeleted) =>
        /\ tried = <<>> /\ inflight = EmptyBag /\ outcomes = EmptyBag
        /\ found = 0 /\ converted = 0 /\ failed = 0
        /\ pc \notin {"launch", "retry", "wait", "delete", "summary"}
        /\ (pc = "exited" /\ ~versionFailed /\ report # "CannotRead") =>
             /\ exitCode = 0 /\ report = "NoFiles"
             /\ enumerated = {targetFolder} /\ summary = NoSummary
  /\ (frontend = "pde" /\ ui.filesScanned /\ heicFiles = <<>>) =>
        ~ui.startEnabled /\ ~pdeMayStart

\* Sketch: the scan of a folder without candidates, from the dialog or
\* from setup.
C8_PdeStep ==
  /\ (frontend = "pde" /\ scan.pc = "dialog" /\ scan'.pc = "idle") =>
        \/ UNCHANGED <<targetFolder, ui, heicFiles, found, converted, failed>>
        \/ NoCandidates(targetFolder') =>
             /\ heicFiles' = <<>> /\ found' = 0
             /\ converted' = 0 /\ failed' = 0
             /\ ~ui'.startEnabled /\ ~ui'.isConverting
             /\ targetFolder' \in enumerated'
             /\ inflight' = inflight /\ workers' = workers /\ fs' = fs
             /\ exitCode' = -1
  /\ (frontend = "pde" /\ pc = "setup" /\ ui'.filesScanned
        /\ NoCandidates(targetFolder)) =>
        /\ heicFiles' = <<>> /\ found' = 0 /\ converted' = 0 /\ failed' = 0
        /\ ~ui'.startEnabled /\ workers' = EmptyBag /\ inflight' = EmptyBag
        /\ fs' = fs /\ exitCode' = -1

\* C8: a run on a valid, readable directory without matching files starts
\* no conversion and deletes nothing, and ends with exit status 0, zero
\* found, converted and failed and no summary of conversions; in the sketch
\* the scan of such a folder leaves the list empty, the counters zero and
\* the Start button disabled, and itself starts no thread or subprocess
\* and deletes nothing.
C8_NoFilesEndsNormally == []C8_Invariant /\ [][C8_PdeStep]_vars

\* A command-line run on a directory that holds entries, none of them a
\* matching file, has ended.
C8_Witness ==
  /\ Cli /\ targetFolder = Photos /\ fs[Photos] # {}
  /\ NoCandidates(Photos) /\ report = "NoFiles" /\ exitCode = 0

\* ------------------------------------------------------------------- C9
\* The number of printed results for file f.
ResultsFor(f) ==
  Copies(outcomes, {o \in BagToSet(outcomes) : o.file = f})

\* C9: the files found are exactly the regular files of the directory
\* whose name ends in .heic without regard to case; each has at most one
\* result, and exactly one when the run is complete; nothing else is ever
\* converted or deleted.
C9_CandidatesExactlyOnce ==
  /\ (Cli /\ targetFolder \in enumerated /\ NoneDeleted) =>
        /\ found = Cardinality(Candidates(targetFolder))
        /\ \A o \in BagToSet(outcomes) :
             /\ \E e \in Candidates(targetFolder) :
                  o.file = Path(targetFolder, e)
             /\ ResultsFor(o.file) = 1
        /\ report = "Complete" =>
             \A e \in Candidates(targetFolder) :
               ResultsFor(Path(targetFolder, e)) = 1
  /\ \A c \in BagToSet(inflight) :
       endsWith(toLowerCase(c.file.name), DotHeic)

\* ------------------------------------------------------------------ C10
\* C10: the summary of a finished run holds the numbers of deleted and
\* delete-failed originals; they add up to converted when the delete
\* setting is on and are both zero when it is off.
C10_SummaryCountsDeletions ==
  (Cli /\ report = "Complete") =>
     /\ {"deleted", "deleteFailed"} \subseteq DOMAIN summary
     /\ summary.deleted + summary.deleteFailed =
          IF deleteOriginals THEN converted ELSE 0
     /\ summary.deleteFailed =
          Copies(outcomes,
                 {o \in BagToSet(outcomes) : o.del = "DeleteFailed"})

\* ------------------------------------------------------------------ C11
\* An argument that is the delete token in any letter case.
IsDeleteToken(a) == toLowerCase(a) = DeleteWord

\* C11: once the arguments are parsed: no argument gives the current
\* directory with originals kept; a sole "delete" gives the current
\* directory with deletion on; a sole other argument gives that directory
\* with originals kept; a directory followed by "delete" gives that
\* directory with deletion on; and for every argument list deletion is on
\* only if some argument is a delete token, and a first argument that is
\* not a delete token is the directory processed.
C11_ArgumentResolution ==
  (Cli /\ pc # "args") =>
     /\ args = <<>> => (targetFolder = Cwd /\ ~deleteOriginals)
     /\ args = <<DeleteWord>> => (targetFolder = Cwd /\ deleteOriginals)
     /\ (Len(args) = 1 /\ ~IsDeleteToken(args[1])) =>
          (targetFolder = resolve(args[1]) /\ ~deleteOriginals)
     /\ (Len(args) = 2 /\ ~IsDeleteToken(args[1]) /\ args[2] = DeleteWord) =>
          (targetFolder = resolve(args[1]) /\ deleteOriginals)
     /\ deleteOriginals => \E j \in 1..Len(args) : IsDeleteToken(args[j])
     /\ (Len(args) >= 1 /\ ~IsDeleteToken(args[1])) =>
          targetFolder = resolve(args[1])

\* ------------------------------------------------------------------ C12
\* js: a run that found candidates ends only through the summary, with
\* every file of the list given a result.
C12_Invariant ==
  (frontend = "js" /\ found > 0) =>
     /\ exitCode \in {-1, 0}
     /\ pc \in {"launch", "retry", "wait", "delete", "summary", "exited"}
     /\ pc \in {"summary", "exited"} =>
          /\ i = Len(heicFiles) + 1
          /\ BagCardinality(outcomes) = Len(heicFiles)
          /\ \A n \in 1..Len(heicFiles) : ResultsFor(heicFiles[n]) = 1
     /\ pc = "exited" <=> summary # NoSummary
     /\ pc = "exited" =>
          (report = "Complete" /\ summary = Summary(converted, failed))

\* The summary is emitted at most once; in the sketch a conversion thread
\* ends only by emitting it (conversionComplete), and, runs not
\* overlapping, only after the last file listed at its start.
C12_Step ==
  /\ summary # NoSummary => summary' = summary
  /\ \A t \in Threads :
       (Moves(t) /\ BagCardinality(workers') < BagCardinality(workers)) =>
          /\ ui'.conversionComplete
          /\ ~started.overlap => t.i = Len(started.files)

\* C12: once the preconditions have passed and a candidate was found, the
\* run goes on to its end whatever fails on single targets: every target
\* enumerated is attempted, and the summary is emitted once, after the
\* last of them.
C12_RunsToCompletion == []C12_Invariant /\ [][C12_Step]_vars

\* ------------------------------------------------------------------ C13
\* A run whose format check warned has gone on and converted a file.
C13_Witness ==
  /\ Cli /\ heicWarned
  /\ report = "Complete" /\ converted >= 1

\* No warning is raised before the format check, and a run that warned
\* does not end with the error of a missing tool.
C13_WarnedOnlyByFormatCheck ==
  /\ (Cli /\ pc \in {"args", "tool", "formats"}) => ~heicWarned
  /\ (Cli /\ heicWarned /\ pc = "exited") => report # "ToolUnavailable"

\* The format check, warning or not, changes nothing but the warning flag
\* and hands over to the same next stage.
C13_Step ==
  /\ (Cli /\ pc = "formats") =>
       /\ pc' = IF frontend = "js" THEN "dircheck" ELSE "count"
       /\ UNCHANGED <<envVars, pdeVars, fs, targetFolder, deleteOriginals,
                      heicFiles, found, converted, failed, i, tried,
                      statuses, pattern, exitCode, report, summary,
                      inflight, outcomes, last, enumerated, versionFailed>>
  /\ (Cli /\ pc # "formats") => heicWarned' = heicWarned

\* C13: when the format listing fails or does not mention the source
\* format, the run only warns and continues as it does when support is
\* confirmed.
C13_FormatWarningIsNotFatal ==
  []C13_WarnedOnlyByFormatCheck /\ [][C13_Step]_vars

\* ------------------------------------------------------------------ C14
\* A run is in progress: the loop of a script is between its first target
\* and the summary, or a conversion thread of the sketch is alive.
InProgress ==
  IF Cli THEN pc \in {"launch", "retry", "wait", "delete"}
         ELSE workers # EmptyBag

\* The counters add up to the targets finished, never more than found.
C14_Invariant ==
  /\ converted + failed <= found
  /\ Cli => converted + failed = BagCardinality(outcomes)

\* While a run is in progress no counter decreases, and a step counts at
\* most one target, in one counter.
C14_Step ==
  InProgress =>
     /\ converted' >= converted
     /\ failed' >= failed
     /\ (converted' + failed') - (converted + failed) \in {0, 1}

\* C14: converted + failed equals the number of targets finished and never
\* exceeds the number found; no counter decreases during a run; each
\* target adds one to exactly one counter.
C14_CountersAddUp == []C14_Invariant /\ [][C14_Step]_vars

\* The same, for the two scripts only.
C14_Scripts ==
  [](Cli => C14_Invariant) /\ [][Cli => C14_Step]_vars

\* ------------------------------------------------------------------ C15
\* A step of the single conversion thread of a run: the file it takes is
\* the one at its index in the list as it was when Start was clicked, and
\* after a conversion it goes on to the deletion exactly if deletion was
\* selected at that click.
C15_Step ==
  (frontend = "pde" /\ ~started.overlap) =>
     \A t \in Threads :
        Moves(t) =>
           /\ t.pc = "get" =>
                /\ t.i < Len(started.files)
                /\ \E t2 \in BagToSet(workers') :
                     t2.pc = "wait" /\ t2.file = started.files[t.i + 1]
           /\ t.pc = "incConverted" =>
                (started.del <=> \E t2 \in BagToSet(workers') :
                                    t2.pc = "delete")

\* C15: in the sketch the delete setting and the file list that apply to a
\* run are those in effect when Start was clicked; a checkbox toggle or a
\* folder selection during the conversion changes neither the files
\* converted nor whether the remaining originals are deleted.
C15_SettingsAsAtStart == [][C15_Step]_vars

\* The same for the steps taken while the list and the setting are still
\* those of the click on Start.
C15_Undisturbed ==
  [][(heicFiles = started.files /\ deleteOriginals = started.del)
       => C15_Step]_vars

====
